---- MODULE Spec2Model ----
(***************************************************************************)
(* git-deps: DependencyDetector (src/git_deps/detector.py).                *)
(*                                                                         *)
(* The detector walks a worklist of commits.  Each commit is diffed        *)
(* against its first parent, every diff hunk is blamed at that parent, and *)
(* each blame hunk names a commit the dependent depends on.  The model     *)
(* keeps the detector's fields as variables and takes one step per         *)
(* iteration of the loops of find_dependencies, find_dependencies_with_    *)
(* parent and blame_diff_hunk.                                             *)
(*                                                                         *)
(* The version-control backend (pygit2 / git) is the environment.  The     *)
(* commit graph is drawn in Init.  The diff and the blame of a commit are  *)
(* revealed one answer at a time, when the detector asks, and kept in      *)
(* `backend`, so that a history answers the same question the same way     *)
(* every time it is asked.                                                 *)
(***************************************************************************)
EXTENDS Integers, Sequences, FiniteSets, TLC

\* ------------------------------------------------------------------ bounds
NumCommits == 3      \* commits of the history, named 1..NumCommits
MaxParents == 2      \* parents of one commit
MaxHunks == 2        \* diff hunks the backend reports over one history
MaxBlame == 3        \* blame hunks the backend reports over one history
MaxLine == 2         \* line numbers 1..MaxLine
MaxExclude == 1      \* entries of options.exclude_commits
MaxCalls == 2        \* find_dependencies calls on one detector

Commits == 1..NumCommits
BadRev == NumCommits + 1   \* a revision string that names no commit
Revs == Commits \cup {BadRev}
Paths == {"f", "g"}        \* paths of the parent's tree
NewPath == "n"             \* a path the parent's tree does not have
Lines == 1..MaxLine
NoCommit == BadRev         \* "no commit" in a field that holds a commit
NoPath == ""               \* "no path": no hunk is being blamed
RecurseArgs == {"None", "True", "False"}

VARIABLES
    parents,                \* repo: commit -> its parents, in order
    backend,                \* repo: commit -> answers given so far for its diff
    options_recurse,        \* options.recurse
    exclude_commits,        \* options.exclude_commits (a list of revisions)
    dependencies,           \* self.dependencies
    todo,                   \* self.todo
    todo_d,                 \* self.todo_d (its keys)
    done,                   \* self.done
    done_d,                 \* self.done_d (its keys)
    commits,                \* self.commits (its keys)
    branch_contains_cache,  \* self.branch_contains_cache
    events,                 \* the calls of notify_listeners, in order
    pc,                     \* where the current find_dependencies call stands
    dependent_rev,          \* find_dependencies: argument dependent_rev
    recurse,                \* find_dependencies: local recurse
    dependent,              \* find_dependencies: the commit being processed
    parent,                 \* find_dependencies: the parent it is diffed against
    path,                   \* blame_diff_hunk: path of the hunk being blamed
    pos,                    \* answers of backend[dependent] consumed so far
    calls,                  \* find_dependencies calls made on this detector
    merge_base_cmds,        \* the git merge-base commands check_output has run
    prior                   \* the runs of earlier detectors over this history

vars == <<parents, backend, options_recurse, exclude_commits, dependencies,
          todo, todo_d, done, done_d, commits, branch_contains_cache, events,
          pc, dependent_rev, recurse, dependent, parent, path, pos,
          calls, merge_base_cmds, prior>>

repo == <<parents, options_recurse, exclude_commits>>

\* How a find_dependencies call can end: by returning, by abort(), or by an
\* exception nothing catches.
Ended == {"returned", "aborted", "CalledProcessError", "KeyError"}

\* abort(msg) of git_deps.utils prints the message and ends the run.
abort == "aborted"

\* GitUtils.ref_commit(repo, rev) raises InvalidCommitish for a revision
\* that names no commit.
InvalidCommitish(rev) == rev \notin Commits

\* ------------------------------------------------------------ small helpers
EmptyMap == [x \in {} |-> x]

Put(m, k, v) == [x \in DOMAIN m \cup {k} |-> IF x = k THEN v ELSE m[x]]

Get(m, k, default) == IF k \in DOMAIN m THEN m[k] ELSE default

Range(s) == {s[i] : i \in DOMAIN s}

\* Sequences over S of length at most n, without repetition.
DistinctSeqs(S, n) ==
    {s \in UNION {[1..k -> S] : k \in 0..n} :
        \A i, j \in DOMAIN s : i # j => s[i] # s[j]}

\* ------------------------------------------------------------- the history
\* A commit's parents are older commits: the history is acyclic.
ParentChoices ==
    {p \in [Commits -> DistinctSeqs(Commits, MaxParents)] :
        \A c \in Commits : \A i \in DOMAIN p[c] : p[c][i] < c}

RECURSIVE AncestorsOrSelf(_)
AncestorsOrSelf(c) ==
    {c} \cup UNION {AncestorsOrSelf(parents[c][i]) : i \in DOMAIN parents[c]}

\* git merge-base a b: the best common ancestors, of which git prints one.
MergeBases(a, b) ==
    LET common == AncestorsOrSelf(a) \cap AncestorsOrSelf(b)
    IN  {m \in common : \A o \in common : m \in AncestorsOrSelf(o) => m = o}

\* ------------------------------------------------------- keys of the cache
\* self.commits is keyed by revision strings; seen_commit is asked about a
\* commit object.  The two kinds of key are kept apart.
RevKey(rev) == <<"rev", rev>>
CommitObj(c) == <<"commit", c>>

\* seen_commit(rev) on a commit cache with the keys `cache`.
seen_commit(cache, rev) == rev \in cache

\* get_commit(rev): the keys of self.commits afterwards.
get_commit(cache, rev) == cache \cup {RevKey(rev)}

\* ------------------------------------------------------------------ events
\* One call of a listener method: its name and its arguments (the fields an
\* event does not have hold NoCommit, NoPath, 0 and the empty map).
Event(name, c, d, p, l, m) ==
    [ev |-> name, c |-> c, d |-> d, path |-> p, line |-> l, deps |-> m]

new_commit(c) == Event("new_commit", c, NoCommit, NoPath, 0, EmptyMap)
new_dependent(c) == Event("new_dependent", c, NoCommit, NoPath, 0, EmptyMap)
new_dependency(c, d, p, l) == Event("new_dependency", c, d, p, l, EmptyMap)
new_path(c, d, p, l) == Event("new_path", c, d, p, l, EmptyMap)
new_line(c, d, p, l) == Event("new_line", c, d, p, l, EmptyMap)
dependent_done(c, m) == Event("dependent_done", c, NoCommit, NoPath, 0, m)
all_done == Event("all_done", NoCommit, NoCommit, NoPath, 0, EmptyMap)

\* notify_listeners(event, *args): every listener gets the call, in the
\* order the listeners were added; the log is what each of them sees.
notify_listeners(log, e) == Append(log, e)

\* ------------------------------------------------- answers of the backend
\* One answer of the backend while a commit's diff is walked: the next diff
\* hunk (its old path; tree_lookup finds it in the parent unless it is new),
\* the next blame hunk of the hunk being blamed, or the end of the diff.
HunkAnswer(p) ==
    [k |-> "hunk", path |-> p, intree |-> p \in Paths,
     dep |-> NoCommit, orig |-> 0, line |-> 0]

BlameAnswer(d, o, l) ==
    [k |-> "blame", path |-> NoPath, intree |-> TRUE,
     dep |-> d, orig |-> o, line |-> l]

EndAnswer ==
    [k |-> "end", path |-> NoPath, intree |-> TRUE,
     dep |-> NoCommit, orig |-> 0, line |-> 0]

Revealed(kind) ==
    Cardinality({ci \in Commits \X (1..(MaxHunks + MaxBlame + 1)) :
                    /\ ci[2] <= Len(backend[ci[1]])
                    /\ backend[ci[1]][ci[2]].k = kind})

\* Faulty variant of run_blame: the blame is run at the dependent itself.
run_blame_at_dependent(c, par) == AncestorsOrSelf(c)

\* run_blame blames at the parent: every commit it names is in the parent's
\* history.
run_blame(c, par) == AncestorsOrSelf(par)

\* The original line numbers a blame hunk for line l of commit d can carry.
\* The detector stores the number in the evidence string and never computes
\* with it, so only whether two reports of one line agree matters: a first
\* report carries l itself, a repeated report carries any number.
Origs(given, d, l) ==
    IF \E i \in DOMAIN given :
           given[i].k = "blame" /\ given[i].dep = d /\ given[i].line = l
    THEN Lines
    ELSE {l}

\* The answers the history can still give for commit c after `given`.
FreshAnswers(c, par, given) ==
    LET last == IF given = <<>> THEN EndAnswer ELSE given[Len(given)]
        blaming == last.k = "blame" \/ (last.k = "hunk" /\ last.intree)
        hunks == IF Revealed("hunk") < MaxHunks
                 THEN {HunkAnswer(p) : p \in Paths \cup {NewPath}}
                 ELSE {}
        blames == IF blaming /\ Revealed("blame") < MaxBlame
                  THEN UNION {{BlameAnswer(d, o, l) : o \in Origs(given, d, l)} :
                                 d \in run_blame(c, par), l \in Lines}
                  ELSE {}
    IN  {EndAnswer} \cup hunks \cup blames

\* The answer to the detector's next question about commit c: the one given
\* before when the question was asked before, any possible one otherwise.
Answers(c, par, n) ==
    IF n < Len(backend[c]) THEN {backend[c][n + 1]}
    ELSE FreshAnswers(c, par, backend[c])

Reveal(c, n, a) ==
    IF n < Len(backend[c]) THEN backend
    ELSE [backend EXCEPT ![c] = Append(@, a)]

\* ------------------------------------------------------ exclusion (oracle)
\* Faulty variant of branch_contains: the merge base is compared with the
\* branch instead of the commit.
branch_contains_reversed(commit, branch, seen, cache, cmds) ==
    LET seen1 == get_commit(seen, branch)
        cache1 == IF commit \in DOMAIN cache THEN cache
                  ELSE Put(cache, commit, EmptyMap)
        cmd == <<commit, branch>>
    IN  IF branch \in DOMAIN cache1[commit]
        THEN [raised |-> FALSE, result |-> cache1[commit][branch],
              commits |-> seen1, cache |-> cache1, cmds |-> cmds]
        ELSE IF MergeBases(commit, branch) = {}
        THEN [raised |-> TRUE, result |-> FALSE,
              commits |-> seen1, cache |-> cache1, cmds |-> Append(cmds, cmd)]
        ELSE LET out == CHOOSE m \in MergeBases(commit, branch) : TRUE
                 result == out = branch
             IN  [raised |-> FALSE, result |-> result, commits |-> seen1,
                  cache |-> [cache1 EXCEPT ![commit] = Put(@, branch, result)],
                  cmds |-> Append(cmds, cmd)]

\* Faulty variant of branch_contains: the memo is written but never read.
branch_contains_unmemoized(commit, branch, seen, cache, cmds) ==
    LET seen1 == get_commit(seen, branch)
        cache1 == IF commit \in DOMAIN cache THEN cache
                  ELSE Put(cache, commit, EmptyMap)
        cmd == <<commit, branch>>
    IN  IF MergeBases(commit, branch) = {}
        THEN [raised |-> TRUE, result |-> FALSE,
              commits |-> seen1, cache |-> cache1, cmds |-> Append(cmds, cmd)]
        ELSE LET out == CHOOSE m \in MergeBases(commit, branch) : TRUE
                 result == out = commit
             IN  [raised |-> FALSE, result |-> result, commits |-> seen1,
                  cache |-> [cache1 EXCEPT ![commit] = Put(@, branch, result)],
                  cmds |-> Append(cmds, cmd)]

\* branch_contains(commit, branch) run on the keys `seen` of self.commits,
\* the memo `cache` and the commands `cmds` run so far: what it returns and
\* what it leaves behind.  git
\* merge-base exits non-zero when the two commits share no ancestor, and
\* check_output then raises.
branch_contains(commit, branch, seen, cache, cmds) ==
    LET seen1 == get_commit(seen, branch)
        cache1 == IF commit \in DOMAIN cache THEN cache
                  ELSE Put(cache, commit, EmptyMap)
        cmd == <<commit, branch>>
    IN  IF branch \in DOMAIN cache1[commit]
        THEN [raised |-> FALSE, result |-> cache1[commit][branch],
              commits |-> seen1, cache |-> cache1, cmds |-> cmds]
        ELSE IF MergeBases(commit, branch) = {}
        THEN [raised |-> TRUE, result |-> FALSE,
              commits |-> seen1, cache |-> cache1, cmds |-> Append(cmds, cmd)]
        ELSE LET out == CHOOSE m \in MergeBases(commit, branch) : TRUE
                 result == out = commit
             IN  [raised |-> FALSE, result |-> result, commits |-> seen1,
                  cache |-> [cache1 EXCEPT ![commit] = Put(@, branch, result)],
                  cmds |-> Append(cmds, cmd)]

\* is_excluded(commit), from entry i of options.exclude_commits on.
RECURSIVE is_excluded_from(_, _, _, _, _)
is_excluded_from(commit, i, seen, cache, cmds) ==
    IF i > Len(exclude_commits)
    THEN [raised |-> FALSE, excluded |-> FALSE, commits |-> seen,
          cache |-> cache, cmds |-> cmds]
    ELSE LET b == branch_contains(commit, exclude_commits[i], seen, cache, cmds)
         IN  IF b.raised \/ b.result
             THEN [raised |-> b.raised, excluded |-> b.result,
                   commits |-> b.commits, cache |-> b.cache, cmds |-> b.cmds]
             ELSE is_excluded_from(commit, i + 1, b.commits, b.cache, b.cmds)

is_excluded(commit, seen, cache, cmds) ==
    is_excluded_from(commit, 1, seen, cache, cmds)

\* ------------------------------------------------------- graph operations
\* The operations below run on a record s of the fields they touch:
\* dependencies, todo, todo_d, commits, events, and status ("ok", or how the call
\* ended: "aborted" by abort(), "KeyError" by a missing dictionary key).

\* Faulty variant of register_new_dependent: new_dependent is fired whether
\* or not the dependent is registered already.
register_new_dependent_always_fires(s, c) ==
    IF c \notin DOMAIN s.dependencies
    THEN [s EXCEPT !.dependencies = Put(@, c, EmptyMap),
                   !.events = notify_listeners(@, new_dependent(c))]
    ELSE [s EXCEPT !.events = notify_listeners(@, new_dependent(c))]

\* register_new_dependent(dependent, dependent_sha1)
register_new_dependent(s, c) ==
    IF c \notin DOMAIN s.dependencies
    THEN [s EXCEPT !.dependencies = Put(@, c, EmptyMap),
                   !.events = notify_listeners(@, new_dependent(c))]
    ELSE s

\* Faulty variant of process_new_dependency: the TODO and done checks are
\* left out.
process_new_dependency_requeue(s, c, d, p, l) ==
    LET s1 == IF ~seen_commit(s.commits, CommitObj(d))
              THEN [s EXCEPT !.events = notify_listeners(@, new_commit(d)),
                             !.dependencies[c] = Put(@, d, EmptyMap)]
              ELSE s
        s2 == [s1 EXCEPT !.events =
                   notify_listeners(@, new_dependency(c, d, p, l))]
    IN  IF d \notin DOMAIN s2.dependencies /\ options_recurse
        THEN [s2 EXCEPT !.todo = Append(@, d), !.todo_d = @ \cup {d}]
        ELSE s2

\* Faulty variant of process_new_dependency: the dependency is put at the
\* head of the TODO list.
process_new_dependency_push_front(s, c, d, p, l) ==
    LET s1 == IF ~seen_commit(s.commits, CommitObj(d))
              THEN [s EXCEPT !.events = notify_listeners(@, new_commit(d)),
                             !.dependencies[c] = Put(@, d, EmptyMap)]
              ELSE s
        s2 == [s1 EXCEPT !.events =
                   notify_listeners(@, new_dependency(c, d, p, l))]
    IN  IF d \in s2.todo_d THEN s2
        ELSE IF d \in done_d THEN s2
        ELSE IF d \notin DOMAIN s2.dependencies /\ options_recurse
        THEN [s2 EXCEPT !.todo = <<d>> \o @, !.todo_d = @ \cup {d}]
        ELSE s2

\* Faulty variant of process_new_dependency: the "already done" check is
\* left out.
process_new_dependency_no_done_check(s, c, d, p, l) ==
    LET s1 == IF ~seen_commit(s.commits, CommitObj(d))
              THEN [s EXCEPT !.events = notify_listeners(@, new_commit(d)),
                             !.dependencies[c] = Put(@, d, EmptyMap)]
              ELSE s
        s2 == [s1 EXCEPT !.events =
                   notify_listeners(@, new_dependency(c, d, p, l))]
    IN  IF d \in s2.todo_d THEN s2
        ELSE IF d \notin DOMAIN s2.dependencies /\ options_recurse
        THEN [s2 EXCEPT !.todo = Append(@, d), !.todo_d = @ \cup {d}]
        ELSE s2

\* Faulty variant of process_new_dependency: a dependency is put on the
\* TODO list only when the list is empty.
process_new_dependency_when_empty(s, c, d, p, l) ==
    LET s1 == IF ~seen_commit(s.commits, CommitObj(d))
              THEN [s EXCEPT !.events = notify_listeners(@, new_commit(d)),
                             !.dependencies[c] = Put(@, d, EmptyMap)]
              ELSE s
        s2 == [s1 EXCEPT !.events =
                   notify_listeners(@, new_dependency(c, d, p, l))]
    IN  IF d \in s2.todo_d THEN s2
        ELSE IF d \in done_d THEN s2
        ELSE IF d \notin DOMAIN s2.dependencies /\ options_recurse
                /\ s2.todo = <<>>
        THEN [s2 EXCEPT !.todo = Append(@, d), !.todo_d = @ \cup {d}]
        ELSE s2

\* process_new_dependency(dependent, dependent_sha1, dependency,
\* dependency_sha1, path, line_num)
process_new_dependency(s, c, d, p, l) ==
    LET s1 == IF ~seen_commit(s.commits, CommitObj(d))
              THEN [s EXCEPT !.events = notify_listeners(@, new_commit(d)),
                             !.dependencies[c] = Put(@, d, EmptyMap)]
              ELSE s
        s2 == [s1 EXCEPT !.events =
                   notify_listeners(@, new_dependency(c, d, p, l))]
    IN  IF d \in s2.todo_d THEN s2
        ELSE IF d \in done_d THEN s2
        ELSE IF d \notin DOMAIN s2.dependencies /\ options_recurse
        THEN [s2 EXCEPT !.todo = Append(@, d), !.todo_d = @ \cup {d}]
        ELSE s2

\* The evidence string f"{dependency_sha1} {orig_line_num} {line_num}".
line_representation(d, o, l) == <<d, o, l>>

\* Faulty variant of record_dependency_source: no check that the line is
\* already there.
record_dependency_source_overwrite(s, c, d, p, l, line) ==
    IF d \notin DOMAIN s.dependencies[c]
    THEN [s EXCEPT !.status = "KeyError"]
    ELSE LET s1 == IF p \notin DOMAIN s.dependencies[c][d]
                   THEN [s EXCEPT !.dependencies[c][d] = Put(@, p, EmptyMap),
                                  !.events = notify_listeners(@, new_path(c, d, p, l))]
                   ELSE s
         IN  [s1 EXCEPT !.dependencies[c][d][p] = Put(@, l, line),
                        !.events = notify_listeners(@, new_line(c, d, p, l))]

\* Faulty variant of record_dependency_source: a line that is already there
\* with the same evidence is passed over.
record_dependency_source_same_evidence(s, c, d, p, l, line) ==
    IF d \notin DOMAIN s.dependencies[c]
    THEN [s EXCEPT !.status = "KeyError"]
    ELSE LET s1 == IF p \notin DOMAIN s.dependencies[c][d]
                   THEN [s EXCEPT !.dependencies[c][d] = Put(@, p, EmptyMap),
                                  !.events = notify_listeners(@, new_path(c, d, p, l))]
                   ELSE s
         IN  IF l \in DOMAIN s1.dependencies[c][d][p]
             THEN IF s1.dependencies[c][d][p][l] = line
                  THEN s1
                  ELSE [s1 EXCEPT !.status = abort]
             ELSE [s1 EXCEPT !.dependencies[c][d][p] = Put(@, l, line),
                             !.events = notify_listeners(@, new_line(c, d, p, l))]

\* Faulty variant of record_dependency_source: new_path is fired for every
\* line, whether or not the path is new.
record_dependency_source_always_new_path(s, c, d, p, l, line) ==
    IF d \notin DOMAIN s.dependencies[c]
    THEN [s EXCEPT !.status = "KeyError"]
    ELSE LET s1 == IF p \notin DOMAIN s.dependencies[c][d]
                   THEN [s EXCEPT !.dependencies[c][d] = Put(@, p, EmptyMap),
                                  !.events = notify_listeners(@, new_path(c, d, p, l))]
                   ELSE [s EXCEPT !.events = notify_listeners(@, new_path(c, d, p, l))]
         IN  IF l \in DOMAIN s1.dependencies[c][d][p]
             THEN [s1 EXCEPT !.status = abort]
             ELSE [s1 EXCEPT !.dependencies[c][d][p] = Put(@, l, line),
                             !.events = notify_listeners(@, new_line(c, d, p, l))]

\* record_dependency_source(parent, dependent, dependent_sha1, dependency,
\* dependency_sha1, path, line_num, line)
record_dependency_source(s, c, d, p, l, line) ==
    IF d \notin DOMAIN s.dependencies[c]
    THEN [s EXCEPT !.status = "KeyError"]
    ELSE LET s1 == IF p \notin DOMAIN s.dependencies[c][d]
                   THEN [s EXCEPT !.dependencies[c][d] = Put(@, p, EmptyMap),
                                  !.events = notify_listeners(@, new_path(c, d, p, l))]
                   ELSE s
         IN  IF l \in DOMAIN s1.dependencies[c][d][p]
             THEN [s1 EXCEPT !.status = abort]
             ELSE [s1 EXCEPT !.dependencies[c][d][p] = Put(@, l, line),
                             !.events = notify_listeners(@, new_line(c, d, p, l))]

\* process_blame_hunk, after is_excluded has said no.
record_blame_hunk(s, c, a, p) ==
    LET s1 == IF a.dep \notin DOMAIN s.dependencies[c]
              THEN process_new_dependency(s, c, a.dep, p, a.line)
              ELSE s
    IN  record_dependency_source(s1, c, a.dep, p, a.line,
                                 line_representation(a.dep, a.orig, a.line))

Fields ==
    [dependencies |-> dependencies, todo |-> todo, todo_d |-> todo_d,
     commits |-> commits, events |-> events, status |-> "ok"]

\* ------------------------------------------------------------------ actions
\* A detector as __init__ leaves it.
Constructed ==
    /\ dependencies = EmptyMap
    /\ todo = <<>>
    /\ todo_d = {}
    /\ done = <<>>
    /\ done_d = {}
    /\ commits = {}
    /\ branch_contains_cache = EmptyMap
    /\ events = <<>>
    /\ pc = "idle"
    /\ dependent_rev = NoCommit
    /\ recurse = FALSE
    /\ dependent = NoCommit
    /\ parent = NoCommit
    /\ path = NoPath
    /\ pos = 0
    /\ calls = 0
    /\ merge_base_cmds = <<>>

Init ==
    /\ parents \in ParentChoices
    /\ backend = [c \in Commits |-> <<>>]
    /\ options_recurse \in BOOLEAN
    /\ exclude_commits \in DistinctSeqs(Commits, MaxExclude)
    /\ prior = <<>>
    /\ Constructed

\* find_dependencies(rev, arg), up to the while loop, on a detector whose
\* commit cache has the keys `seen` and whose worklist is q, qd.
Enter(rev, arg, seen, q, qd) ==
    /\ dependent_rev' = rev
    /\ recurse' = IF arg = "None" THEN options_recurse ELSE arg = "True"
    /\ IF InvalidCommitish(rev)
       THEN /\ pc' = abort
            /\ commits' = seen
            /\ todo' = q
            /\ todo_d' = qd
            /\ UNCHANGED dependent
       ELSE /\ pc' = "loop"
            /\ commits' = get_commit(seen, rev)
            /\ dependent' = rev
            /\ todo' = Append(q, rev)
            /\ todo_d' = qd \cup {rev}

\* The first find_dependencies call on the detector.
Call(rev, arg) ==
    /\ pc = "idle"
    /\ calls' = calls + 1
    /\ Enter(rev, arg, commits, todo, todo_d)
    /\ UNCHANGED <<repo, backend, dependencies, done, done_d,
                   branch_contains_cache, events, parent, path, pos,
                   merge_base_cmds, prior>>

\* Faulty variant of Finish: dependent_done gets the whole graph.
Finish_whole_graph(c, log) ==
    /\ done' = Append(done, c)
    /\ done_d' = done_d \cup {c}
    /\ events' = notify_listeners(log, dependent_done(c, dependencies))
    /\ pc' = "loop"

\* Faulty variant of Finish: dependent_done gets a fresh empty map.
Finish_empty_map(c, log) ==
    /\ done' = Append(done, c)
    /\ done_d' = done_d \cup {c}
    /\ events' = notify_listeners(log, dependent_done(c, EmptyMap))
    /\ pc' = "loop"

\* The end of a loop iteration: the commit is done.
Finish(c, log) ==
    /\ done' = Append(done, c)
    /\ done_d' = done_d \cup {c}
    /\ events' = notify_listeners(log,
                     dependent_done(c, Get(dependencies, c, EmptyMap)))
    /\ pc' = "loop"

\* Faulty variant of diff_parent: the last parent.
diff_parent_last(c) == parents[c][Len(parents[c])]

\* The parent a commit is diffed against: parents[0].
diff_parent(c) == parents[c][1]

\* One iteration of the while loop for the commit at index i of the
\* worklist, up to the call of find_dependencies_with_parent; the whole
\* iteration for a commit that is already done or has no parent.
PopAt(i) ==
    /\ pc = "loop"
    /\ todo # <<>>
    /\ LET c == todo[i]
       IN  /\ dependent' = c
           /\ todo' = SubSeq(todo, 1, i - 1) \o SubSeq(todo, i + 1, Len(todo))
           /\ path' = NoPath
           /\ pos' = 0
           /\ IF c \notin todo_d
              THEN /\ pc' = "KeyError"
                   /\ UNCHANGED <<todo_d, done, done_d, events, parent>>
              ELSE /\ todo_d' = todo_d \ {c}
                   /\ IF c \in done_d
                      THEN UNCHANGED <<pc, done, done_d, events, parent>>
                      ELSE IF parents[c] # <<>>
                      THEN /\ events' = notify_listeners(events, new_commit(c))
                           /\ parent' = diff_parent(c)
                           /\ pc' = "diff"
                           /\ UNCHANGED <<done, done_d>>
                      ELSE /\ Finish(c, notify_listeners(events, new_commit(c)))
                           /\ UNCHANGED parent
    /\ UNCHANGED <<repo, backend, dependencies, commits, branch_contains_cache,
                   dependent_rev, recurse, calls, merge_base_cmds, prior>>

\* Faulty variant of BlameDiffHunk: the dependent is registered before
\* tree_lookup is asked.
BlameDiffHunk_register_first ==
    /\ pc = "diff"
    /\ \E a \in Answers(dependent, parent, pos) :
        /\ a.k = "hunk"
        /\ backend' = Reveal(dependent, pos, a)
        /\ pos' = pos + 1
        /\ LET s == register_new_dependent(Fields, dependent)
           IN  /\ path' = IF a.intree THEN a.path ELSE NoPath
               /\ dependencies' = s.dependencies
               /\ events' = s.events
    /\ UNCHANGED <<repo, todo, todo_d, done, done_d, commits,
                   branch_contains_cache, pc, dependent_rev, recurse,
                   dependent, parent, calls, merge_base_cmds, prior>>

\* find_dependencies_with_parent: the next hunk of the diff against the
\* parent, and blame_diff_hunk up to its loop over the blame.
BlameDiffHunk ==
    /\ pc = "diff"
    /\ \E a \in Answers(dependent, parent, pos) :
        /\ a.k = "hunk"
        /\ backend' = Reveal(dependent, pos, a)
        /\ pos' = pos + 1
        /\ IF ~a.intree
           THEN /\ path' = NoPath
                /\ UNCHANGED <<dependencies, events>>
           ELSE LET s == register_new_dependent(Fields, dependent)
                IN  /\ path' = a.path
                    /\ dependencies' = s.dependencies
                    /\ events' = s.events
    /\ UNCHANGED <<repo, todo, todo_d, done, done_d, commits,
                   branch_contains_cache, pc, dependent_rev, recurse,
                   dependent, parent, calls, merge_base_cmds, prior>>

\* Faulty variant of Pop: the worklist is not taken in order.
PopAny == \E i \in DOMAIN todo : PopAt(i)

\* self.todo.pop(0)
Pop == PopAt(1)

\* process_blame_hunk for the next blame hunk of the hunk being blamed.
ProcessBlameHunk ==
    /\ pc = "diff"
    /\ path # NoPath
    /\ \E a \in Answers(dependent, parent, pos) :
        /\ a.k = "blame"
        /\ backend' = Reveal(dependent, pos, a)
        /\ pos' = pos + 1
        /\ LET x == is_excluded(a.dep, get_commit(commits, a.dep),
                                branch_contains_cache, merge_base_cmds)
               s0 == [Fields EXCEPT !.commits = x.commits]
               s == IF x.raised
                    THEN [s0 EXCEPT !.status = "CalledProcessError"]
                    ELSE IF x.excluded THEN s0
                    ELSE record_blame_hunk(s0, dependent, a, path)
           IN  /\ commits' = s.commits
               /\ branch_contains_cache' = x.cache
               /\ merge_base_cmds' = x.cmds
               /\ dependencies' = s.dependencies
               /\ todo' = s.todo
               /\ todo_d' = s.todo_d
               /\ events' = s.events
               /\ pc' = IF s.status = "ok" THEN pc ELSE s.status
    /\ UNCHANGED <<repo, done, done_d, dependent_rev, recurse,
                   dependent, parent, path, calls, prior>>

\* The diff has no more hunks: the rest of the loop iteration.
EndDiff ==
    /\ pc = "diff"
    /\ \E a \in Answers(dependent, parent, pos) :
        /\ a.k = "end"
        /\ backend' = Reveal(dependent, pos, a)
        /\ pos' = pos + 1
    /\ Finish(dependent, events)
    /\ path' = NoPath
    /\ UNCHANGED <<repo, dependencies, todo, todo_d, commits,
                   branch_contains_cache, dependent_rev, recurse,
                   dependent, parent, calls, merge_base_cmds, prior>>

\* Faulty variant of AllDone: the loop is left after any iteration.
AllDone_early ==
    /\ pc = "loop"
    /\ events' = notify_listeners(events, all_done)
    /\ pc' = "returned"
    /\ UNCHANGED <<repo, backend, dependencies, todo, todo_d, done, done_d,
                   commits, branch_contains_cache, dependent_rev, recurse,
                   dependent, parent, path, pos, calls, merge_base_cmds, prior>>

\* The worklist is empty: the end of find_dependencies.
AllDone ==
    /\ pc = "loop"
    /\ todo = <<>>
    /\ events' = notify_listeners(events, all_done)
    /\ pc' = "returned"
    /\ UNCHANGED <<repo, backend, dependencies, todo, todo_d, done, done_d,
                   commits, branch_contains_cache, dependent_rev, recurse,
                   dependent, parent, path, pos, calls, merge_base_cmds, prior>>

Next ==
    \/ \E rev \in Revs, arg \in RecurseArgs : Call(rev, arg)
    \/ Pop
    \/ BlameDiffHunk
    \/ ProcessBlameHunk
    \/ EndDiff
    \/ AllDone

Spec == Init /\ [][Next]_vars

\* The program is one sequential thread: a step that can be taken is taken.
FairSpec == Spec /\ WF_vars(Next)

\* A second run: a fresh detector with the same options makes a
\* find_dependencies call with the same revision and the same effective
\* recurse over the same history, after the first detector made one call.
Rerun ==
    /\ pc \in Ended
    /\ calls = 1
    /\ prior = <<>>
    /\ prior' = <<[events |-> events, pc |-> pc]>>
    /\ \E arg \in RecurseArgs :
        /\ (IF arg = "None" THEN options_recurse ELSE arg = "True") = recurse
        /\ Enter(dependent_rev, arg, {}, <<>>, {})
    /\ dependencies' = EmptyMap
    /\ done' = <<>>
    /\ done_d' = {}
    /\ branch_contains_cache' = EmptyMap
    /\ events' = <<>>
    /\ parent' = NoCommit
    /\ path' = NoPath
    /\ pos' = 0
    /\ merge_base_cmds' = <<>>
    /\ UNCHANGED <<repo, backend, calls>>

NextRerun == Next \/ Rerun

\* A further find_dependencies call on the same detector, after the one
\* before has returned.
Recall(rev, arg) ==
    /\ pc = "returned"
    /\ calls < MaxCalls
    /\ calls' = calls + 1
    /\ Enter(rev, arg, commits, todo, todo_d)
    /\ UNCHANGED <<repo, backend, dependencies, done, done_d,
                   branch_contains_cache, events, parent, path, pos,
                   merge_base_cmds, prior>>

NextCalls == Next \/ \E rev \in Revs, arg \in RecurseArgs : Recall(rev, arg)

SpecCalls == Init /\ [][NextCalls]_vars

SpecRerun == Init /\ [][NextRerun]_vars

\* ================================================================ claims
\* Helpers of the statements below.

\* Indices of the events with a given name.
EventsNamed(name) == {i \in DOMAIN events : events[i].ev = name}

\* The dependencies recorded under a dependent (none if it has no entry).
DepsOf(c) == DOMAIN Get(dependencies, c, EmptyMap)

\* The recorded edges.
Edges == {e \in Commits \X Commits : e[2] \in DepsOf(e[1])}

\* A candidate that is an ancestor of, or equal to, an excluded boundary.
Excluded(d) ==
    \E i \in DOMAIN exclude_commits : d \in AncestorsOrSelf(exclude_commits[i])

\* The blame hunks the backend has reported for commit c.
BlamedBy(c) ==
    {backend[c][i].dep : i \in {j \in DOMAIN backend[c] : backend[c][j].k = "blame"}}

\* ---------------------------------------------------------------- C1
ProcessedOnce ==
    /\ pc # "KeyError"
    /\ \A i, j \in DOMAIN todo : todo[i] = todo[j] => i = j
    /\ \A i, j \in DOMAIN done : done[i] = done[j] => i = j
    /\ \A i, j \in EventsNamed("dependent_done") :
           events[i].c = events[j].c => i = j

RecursionEnabled == options_recurse /\ recurse

\* C1 as claimed: with recursion enabled, a call that has entered its loop
\* eventually returns with the worklist empty, and no commit is queued,
\* appended to done or reported by dependent_done twice.
C1_ReturnsAlways ==
    /\ []ProcessedOnce
    /\ (pc = "loop" /\ RecursionEnabled) ~> (pc = "returned" /\ todo = <<>>)

\* C1, amended: with recursion enabled, a call that has entered its loop
\* eventually ends: it returns with the worklist empty, or it is cut short by
\* abort() (a line recorded twice) or by the CalledProcessError of a failed
\* git merge-base; no commit is queued, appended to done or reported by
\* dependent_done twice, and the worklist bookkeeping never fails.
C1_Terminates ==
    /\ []ProcessedOnce
    /\ (pc = "loop" /\ RecursionEnabled)
           ~> \/ pc = "returned" /\ todo = <<>>
              \/ pc \in {"aborted", "CalledProcessError"}

\* A recursive run has returned after processing three commits, one of them
\* found as a dependency of two dependents.
C1_Witness ==
    /\ pc = "returned"
    /\ RecursionEnabled
    /\ Len(done) >= 3
    /\ \E d \in Commits : Cardinality({e \in Edges : e[2] = d}) >= 2

\* ---------------------------------------------------------------- C2
\* C2: a candidate that is an ancestor of, or equal to, an excluded commit
\* is no dependency key of the graph, is named by no new_dependency,
\* new_path or new_line event, and is in the worklist only if it is the
\* revision find_dependencies was called with.
C2_Exclusion ==
    /\ \A e \in Edges : ~Excluded(e[2])
    /\ \A i \in DOMAIN events :
           events[i].ev \in {"new_dependency", "new_path", "new_line"}
               => ~Excluded(events[i].d)
    /\ \A i \in DOMAIN todo : Excluded(todo[i]) => todo[i] = dependent_rev

\* A commit is done whose blame named an excluded candidate and a candidate
\* that is not excluded.
C2_Witness ==
    \E c \in Commits :
        /\ c \in done_d
        /\ \E d \in BlamedBy(c) : Excluded(d)
        /\ DepsOf(c) # {}

\* ---------------------------------------------------------------- C3
\* C3: a line number recorded for a (dependent, dependency, path) stays
\* recorded with the evidence it was first given, whatever is recorded
\* later, and new_line is fired at most once for it.
C3_NoDuplicateEvidence ==
    /\ [][\A c \in DOMAIN dependencies : \A d \in DOMAIN dependencies[c] :
          \A p \in DOMAIN dependencies[c][d] :
          \A l \in DOMAIN dependencies[c][d][p] :
              /\ c \in DOMAIN dependencies'
              /\ d \in DOMAIN dependencies'[c]
              /\ p \in DOMAIN dependencies'[c][d]
              /\ l \in DOMAIN dependencies'[c][d][p]
              /\ dependencies'[c][d][p][l] = dependencies[c][d][p][l]]_vars
    /\ [](\A i, j \in EventsNamed("new_line") : events[i] = events[j] => i = j)

\* The blame reported a line a second time with other evidence: the run is
\* aborted and the graph holds the first evidence.
C3_Witness ==
    /\ pc = "aborted"
    /\ dependent \in Commits
    /\ pos >= 1
    /\ path # NoPath
    /\ LET a == backend[dependent][pos]
       IN  /\ a.k = "blame"
           /\ a.dep \in DepsOf(dependent)
           /\ path \in DOMAIN dependencies[dependent][a.dep]
           /\ a.line \in DOMAIN dependencies[dependent][a.dep][path]
           /\ dependencies[dependent][a.dep][path][a.line]
                  # line_representation(a.dep, a.orig, a.line)

\* ---------------------------------------------------------------- C4
\* C4: the graph has no edge from a commit to itself.
C4_NoSelfDependency == \A c \in DOMAIN dependencies : c \notin DepsOf(c)

\* A run has returned with an edge in the graph.
C4_Witness == pc = "returned" /\ Edges # {}

C6_RootNoEdges ==
    \A c \in Commits :
        (c \in done_d /\ parents[c] = <<>>) =>
            /\ backend[c] = <<>>
            /\ DepsOf(c) = {}
            /\ dependent_done(c, EmptyMap) \in Range(events)
            /\ \A i \in EventsNamed("dependent_done") :
                   events[i].c = c => events[i].deps = EmptyMap

\* A root commit reached through a dependency is done.
C6_Witness ==
    \E c \in Commits :
        /\ c \in done_d
        /\ parents[c] = <<>>
        /\ c # dependent_rev
        /\ \E e \in Edges : e[2] = c

\* ---------------------------------------------------------------- C7
\* C7: all_done is fired once by each call that returns and by no other:
\* when a call has returned it is the last event and the worklist is empty.
C7_TerminalEvent ==
    LET n == Cardinality(EventsNamed("all_done"))
    IN  IF pc = "returned"
        THEN /\ n = calls
             /\ events[Len(events)] = all_done
             /\ todo = <<>>
        ELSE n = IF calls = 0 THEN 0 ELSE calls - 1

\* A call has returned after firing every kind of event.
C7_Witness ==
    /\ pc = "returned"
    /\ \A name \in {"new_commit", "new_dependent", "new_dependency", "new_path",
                    "new_line", "dependent_done", "all_done"} :
           EventsNamed(name) # {}

\* ---------------------------------------------------------------- C8
\* s is a prefix of t.
IsPrefix(s, t) == Len(s) <= Len(t) /\ \A i \in DOMAIN s : s[i] = t[i]

C9_RecursionSwitch ==
    calls = 1 =>
        /\ ~recurse =>
               /\ Range(todo) \subseteq {dependent_rev}
               /\ Range(done) \subseteq {dependent_rev}
               /\ DOMAIN dependencies \subseteq {dependent_rev}
        /\ (recurse /\ pc = "returned") =>
               \A e \in Edges : e[2] \in done_d

\* ---------------------------------------------------------------- C10
\* The keys of self.dependencies, and of the entry of a dependent, in the
\* order they were inserted: a key is inserted where new_dependent, and
\* new_dependency, is fired for it.
RECURSIVE KeysInOrder(_, _, _)
KeysInOrder(log, name, c) ==
    IF log = <<>> THEN <<>>
    ELSE LET e == Head(log)
             rest == KeysInOrder(Tail(log), name, c)
         IN  IF e.ev = name /\ (name = "new_dependent" \/ e.c = c)
             THEN <<IF name = "new_dependent" THEN e.c ELSE e.d>> \o rest
             ELSE rest

\* edges(): a list with one list per dependent, which holds one
\* (dependent, dependency) pair per dependency of that dependent.
edges ==
    LET dependents == KeysInOrder(events, "new_dependent", NoCommit)
    IN  [i \in DOMAIN dependents |->
            LET ds == KeysInOrder(events, "new_dependency", dependents[i])
            IN  [j \in DOMAIN ds |-> <<dependents[i], ds[j]>>]]

\* C10 as claimed: after a call has returned, edges() has one element per
\* recorded dependency key, and each element is a pair.
C10_EdgesFlattened ==
    pc = "returned" =>
        /\ Len(edges) = Cardinality(Edges)
        /\ \A i \in DOMAIN edges : Len(edges[i]) = 2 /\ edges[i][1] \in Commits

\* ---------------------------------------------------------------- C11
\* The (candidate, boundary) pairs the memo of branch_contains holds.
Memoized ==
    {cb \in Commits \X Commits :
        /\ cb[1] \in DOMAIN branch_contains_cache
        /\ cb[2] \in DOMAIN branch_contains_cache[cb[1]]}

\* The blame hunks reported so far that name commit d.
BlameHunksNaming(d) ==
    {ci \in Commits \X (1..(MaxHunks + MaxBlame + 1)) :
        /\ ci[2] <= Len(backend[ci[1]])
        /\ backend[ci[1]][ci[2]].k = "blame"
        /\ backend[ci[1]][ci[2]].dep = d}

\* C11: git merge-base is run at most once for a (candidate, boundary)
\* pair; a pair is in the memo exactly when the command was run for it and
\* gave an answer, and the memo holds that answer; a query for a memoized
\* pair returns the memoized boolean, runs no command and leaves the memo as
\* it is; an entry of the memo is never changed or removed.
C11_IdempotentCache ==
    /\ [](\A i, j \in DOMAIN merge_base_cmds :
              merge_base_cmds[i] = merge_base_cmds[j] => i = j)
    /\ [](\A cb \in Memoized :
              /\ cb \in Range(merge_base_cmds)
              /\ branch_contains_cache[cb[1]][cb[2]]
                     = (cb[1] \in AncestorsOrSelf(cb[2]))
              /\ LET q == branch_contains(cb[1], cb[2], commits,
                                          branch_contains_cache, merge_base_cmds)
                 IN  /\ ~q.raised
                     /\ q.result = branch_contains_cache[cb[1]][cb[2]]
                     /\ q.cmds = merge_base_cmds
                     /\ q.cache = branch_contains_cache)
    /\ [](\A i \in DOMAIN merge_base_cmds :
              \/ merge_base_cmds[i] \in Memoized
              \/ i = Len(merge_base_cmds) /\ pc = "CalledProcessError")
    /\ [][\A cb \in Memoized :
              /\ cb[1] \in DOMAIN branch_contains_cache'
              /\ cb[2] \in DOMAIN branch_contains_cache'[cb[1]]
              /\ branch_contains_cache'[cb[1]][cb[2]]
                     = branch_contains_cache[cb[1]][cb[2]]]_vars

\* A run has returned in which two blame hunks named the same candidate, so
\* that the same pair was queried twice, and the candidate is not excluded.
C11_Witness ==
    /\ pc = "returned"
    /\ \E cb \in Memoized :
           /\ Cardinality(BlameHunksNaming(cb[1])) >= 2
           /\ ~branch_contains_cache[cb[1]][cb[2]]
           /\ \E e \in Edges : e[2] = cb[1]

\* ---------------------------------------------------------------- C12
\* The commit that has left the worklist and is not done yet.
Processing ==
    IF pc \in {"diff", "aborted", "CalledProcessError"} /\ dependent \in Commits
    THEN <<dependent>>
    ELSE <<>>

\* The commits enqueued so far, in the order they leave the worklist: the
\* done list, the commit being processed, the worklist.
QueueOrder == done \o Processing \o todo

\* The commits dependent_done was fired for, in the order of the events.
RECURSIVE DoneEvents(_)
DoneEvents(log) ==
    IF log = <<>> THEN <<>>
    ELSE IF Head(log).ev = "dependent_done"
    THEN <<Head(log).c>> \o DoneEvents(Tail(log))
    ELSE DoneEvents(Tail(log))

\* C12: in one run a commit is enqueued at the tail of the worklist and
\* leaves it at the head, so that the order in which commits were enqueued
\* (the revision called with first) only grows at its end while the
\* commits move from the worklist to the done list; dependent_done is fired
\* in the order of the done list.
C12_Fifo ==
    /\ [][IsPrefix(QueueOrder, QueueOrder')]_vars
    /\ [](QueueOrder # <<>> => QueueOrder[1] = dependent_rev)
    /\ [](DoneEvents(events) = done)

\* A run has returned that enqueued two dependencies while it processed the
\* revision it was called with, and processed all three.
C12_Witness ==
    /\ pc = "returned"
    /\ Len(done) = 3
    /\ done[1] = dependent_rev
    /\ DepsOf(done[1]) = {done[2], done[3]}

\* ---------------------------------------------------------------- C13
\* C13 as claimed: no commit is both in the worklist and done, and no commit
\* is twice in the worklist, whatever calls are made on the detector.
C13_Disjoint ==
    /\ Range(todo) \cap Range(done) = {}
    /\ \A i, j \in DOMAIN todo : todo[i] = todo[j] => i = j

\* C13, amended: no commit is twice in the worklist or twice in the done
\* list, and todo_d and done_d hold their commits.  A commit is both in the
\* worklist and done only as the revision a later call was made with: it is
\* then alone in the worklist, and the pop that takes it out leaves the done
\* list, the graph and the events as they are.
C13_DisjointButSeed ==
    /\ [](/\ \A i, j \in DOMAIN todo : todo[i] = todo[j] => i = j
          /\ \A i, j \in DOMAIN done : done[i] = done[j] => i = j
          /\ todo_d = Range(todo)
          /\ done_d = Range(done))
    /\ [](\A c \in Range(todo) \cap Range(done) :
              /\ c = dependent_rev
              /\ calls > 1
              /\ pc = "loop"
              /\ todo = <<c>>)
    /\ [][(todo # <<>> /\ todo[1] \in done_d /\ todo' = Tail(todo)) =>
              /\ done' = done
              /\ dependencies' = dependencies
              /\ events' = events
              /\ pc' = "loop"]_vars

\* A second call, made with a revision the first call had processed, has
\* returned: it fired nothing but all_done.
C13_Witness ==
    /\ pc = "returned"
    /\ calls = 2
    /\ dependent_rev \in done_d
    /\ Len(done) >= 2
    /\ Len(events) >= 2
    /\ events[Len(events) - 1] = all_done

\* ---------------------------------------------------------------- C14
\* C14 as claimed: a commit is a key of the graph exactly when it is done
\* or being processed.
C14_KeyIffProcessed ==
    \A c \in Commits :
        c \in DOMAIN dependencies <=> (c \in done_d \/ Processing = <<c>>)

\* The diff hunks of commit c handed to blame_diff_hunk so far whose path
\* tree_lookup finds in the parent.
HunksInTree(c) ==
    {i \in 1..(IF Processing = <<c>> THEN pos ELSE Len(backend[c])) :
        backend[c][i].k = "hunk" /\ backend[c][i].intree}

\* C14, amended: every key of the graph is a commit that is done or being
\* processed, and such a commit is a key exactly when its diff has had a
\* hunk whose path is in the parent's tree; a root commit and a commit
\* whose diff only has new paths are never keys.
C14_KeyWhenBlamed ==
    /\ \A c \in DOMAIN dependencies : c \in done_d \/ Processing = <<c>>
    /\ \A c \in Commits :
           (c \in done_d \/ Processing = <<c>>) =>
               (c \in DOMAIN dependencies <=> HunksInTree(c) # {})

\* A run has returned with a commit that is a key and a commit with a
\* parent and a diff hunk that is done and no key.
C14_Witness ==
    /\ pc = "returned"
    /\ DOMAIN dependencies # {}
    /\ \E c \in done_d :
           /\ parents[c] # <<>>
           /\ \E i \in DOMAIN backend[c] : backend[c][i].k = "hunk"
           /\ c \notin DOMAIN dependencies

\* ---------------------------------------------------------------- C15
\* The candidates the blame hunks of commit c have named so far that are
\* not excluded.
Candidates(c) == {d \in BlamedBy(c) : ~Excluded(d)}

\* C15 as claimed: a commit is a key of the graph, and new_dependent was
\* fired for it, only if one of its blame hunks named a candidate that is
\* not excluded; new_dependent is fired at most once for a commit.
C15_RegisteredOnCandidate ==
    /\ \A c \in DOMAIN dependencies : Candidates(c) # {}
    /\ \A i \in EventsNamed("new_dependent") : Candidates(events[i].c) # {}
    /\ \A i, j \in EventsNamed("new_dependent") :
           events[i].c = events[j].c => i = j

\* C15, amended: a commit becomes a key of the graph in the step that hands
\* the first hunk whose path is in the parent's tree to blame_diff_hunk,
\* before any blame hunk of it is looked at, and new_dependent is fired for
\* it in that step; new_dependent is fired at most once for a commit, and
\* for the keys of the graph and no other commit.
C15_RegisteredOnHunk ==
    /\ [][\A c \in Commits :
              (c \notin DOMAIN dependencies /\ c \in DOMAIN dependencies') =>
                  /\ c = dependent
                  /\ pos' = pos + 1
                  /\ backend'[c][pos'].k = "hunk"
                  /\ backend'[c][pos'].intree
                  /\ \A i \in 1..pos : backend[c][i].k # "blame"
                  /\ events' = Append(events, new_dependent(c))]_vars
    /\ [](\A c \in Commits : c \in DOMAIN dependencies <=> HunksInTree(c) # {})
    /\ []({events[i].c : i \in EventsNamed("new_dependent")} = DOMAIN dependencies)
    /\ [](\A i, j \in EventsNamed("new_dependent") :
              events[i].c = events[j].c => i = j)

\* A commit is done and a key of the graph, two of its hunks were blamed,
\* and every candidate its blame named is excluded.
C15_Witness ==
    \E c \in done_d :
        /\ c \in DOMAIN dependencies
        /\ Cardinality(HunksInTree(c)) >= 2
        /\ BlamedBy(c) # {}
        /\ Candidates(c) = {}

\* ---------------------------------------------------------------- C16
\* Line l is recorded for (dependent c, dependency d, path p).
LineRecorded(c, d, p, l) ==
    /\ d \in DepsOf(c)
    /\ p \in DOMAIN dependencies[c][d]
    /\ l \in DOMAIN dependencies[c][d][p]

\* The run was ended by abort() while a blame hunk was processed.
AbortedAtBlameHunk ==
    /\ pc = abort
    /\ dependent \in Commits
    /\ pos >= 1
    /\ backend[dependent][pos].k = "blame"

\* C16 as claimed: when the run is aborted at a blame hunk, the line was
\* recorded before with other evidence than the hunk brings, the recorded
\* evidence is still there, and the last event is none of new_line for
\* that line's second report, dependent_done and all_done; the same
\* evidence a second time does not abort.
C16_AbortOnConflict ==
    AbortedAtBlameHunk =>
        LET a == backend[dependent][pos]
        IN  /\ LineRecorded(dependent, a.dep, path, a.line)
            /\ dependencies[dependent][a.dep][path][a.line]
                   # line_representation(a.dep, a.orig, a.line)
            /\ events[Len(events)].ev \notin {"dependent_done", "all_done"}

\* C16, amended: a blame hunk for a line number that is already recorded
\* for the same (dependent, dependency, path) aborts the run, whether its
\* evidence is the recorded one or another; the step leaves the graph, the
\* events and the done list as they are, nothing else aborts a run that is
\* walking a diff, and the last event of an aborted run is neither
\* dependent_done nor all_done.
C16_AbortOnRepeatedLine ==
    /\ [][(/\ pc = "diff"
            /\ pos' = pos + 1
            /\ backend'[dependent][pos'].k = "blame"
            /\ LineRecorded(dependent, backend'[dependent][pos'].dep, path,
                            backend'[dependent][pos'].line)) =>
               /\ pc' = abort
               /\ dependencies' = dependencies
               /\ events' = events
               /\ done' = done]_vars
    /\ [][(pc = "diff" /\ pc' = abort) =>
               /\ pos' = pos + 1
               /\ backend'[dependent][pos'].k = "blame"
               /\ LineRecorded(dependent, backend'[dependent][pos'].dep, path,
                               backend'[dependent][pos'].line)]_vars
    /\ [](AbortedAtBlameHunk =>
              /\ dependent \notin done_d
              /\ events[Len(events)].ev \notin {"dependent_done", "all_done"})

\* The blame reported a line a second time with the evidence it had the
\* first time, and the run is aborted.
C16_Witness ==
    /\ AbortedAtBlameHunk
    /\ LET a == backend[dependent][pos]
       IN  /\ LineRecorded(dependent, a.dep, path, a.line)
           /\ dependencies[dependent][a.dep][path][a.line]
                  = line_representation(a.dep, a.orig, a.line)

\* ---------------------------------------------------------------- C17
\* The events that have commit c as their dependent.
EventsOfDependent(c) ==
    {i \in DOMAIN events :
        /\ events[i].ev \in {"new_dependent", "new_dependency", "new_path",
                             "new_line"}
        /\ events[i].c = c}

\* C17: dependent_done is fired once for every commit of the done list and
\* for no other; it is fired in the step that puts the commit in the done
\* list, with the commit's entry of the graph (the empty map if it has
\* none), which does not change afterwards; every event that has the
\* commit as dependent comes before it.
C17_DependentDone ==
    /\ [](\A c \in Commits :
              Cardinality({i \in EventsNamed("dependent_done") : events[i].c = c})
                  = IF c \in done_d THEN 1 ELSE 0)
    /\ [](\A i \in EventsNamed("dependent_done") :
              /\ events[i].deps = Get(dependencies, events[i].c, EmptyMap)
              /\ \A j \in EventsOfDependent(events[i].c) : j < i)
    /\ [][\A c \in Commits :
              (c \notin done_d /\ c \in done_d') =>
                  /\ done' = Append(done, c)
                  /\ events'[Len(events')]
                         = dependent_done(c, Get(dependencies', c, EmptyMap))
                  /\ dependencies' = dependencies]_vars

\* A run has returned after dependent_done was fired with a map of two
\* dependencies for one commit and with the empty map for another.
C17_Witness ==
    /\ pc = "returned"
    /\ \E i, j \in EventsNamed("dependent_done") :
           /\ Cardinality(DOMAIN events[i].deps) = 2
           /\ events[j].deps = EmptyMap
           /\ EventsOfDependent(events[i].c) # {}

\* ---------------------------------------------------------------- C18
\* The commits reachable from the commits of S through recorded edges.
RECURSIVE ReachableFrom(_)
ReachableFrom(S) ==
    LET N == S \cup {e[2] : e \in {x \in Edges : x[1] \in S}}
    IN  IF N = S THEN S ELSE ReachableFrom(N)

RecordedPaths ==
    {x \in Commits \X Commits \X (Paths \cup {NewPath}) :
        /\ x[2] \in DepsOf(x[1])
        /\ x[3] \in DOMAIN dependencies[x[1]][x[2]]}

RecordedLines ==
    {x \in Commits \X Commits \X (Paths \cup {NewPath}) \X Lines :
        LineRecorded(x[1], x[2], x[3], x[4])}

\* C19: new_dependency is fired once for each recorded edge, new_path once
\* for each path recorded under an edge and new_line once for each line
\* recorded under a path, and for nothing else; new_dependency is followed
\* at once by new_path and new_line, and new_path by new_line, for the same
\* blame hunk.
C19_FirstTimeEvents ==
    /\ \A i, j \in EventsNamed("new_dependency") :
           (events[i].c = events[j].c /\ events[i].d = events[j].d) => i = j
    /\ \A i, j \in EventsNamed("new_path") :
           (/\ events[i].c = events[j].c /\ events[i].d = events[j].d
            /\ events[i].path = events[j].path) => i = j
    /\ \A i, j \in EventsNamed("new_line") :
           (/\ events[i].c = events[j].c /\ events[i].d = events[j].d
            /\ events[i].path = events[j].path
            /\ events[i].line = events[j].line) => i = j
    /\ {<<events[i].c, events[i].d>> : i \in EventsNamed("new_dependency")}
           = Edges
    /\ {<<events[i].c, events[i].d, events[i].path>> :
            i \in EventsNamed("new_path")} = RecordedPaths
    /\ {<<events[i].c, events[i].d, events[i].path, events[i].line>> :
            i \in EventsNamed("new_line")} = RecordedLines
    /\ \A i \in EventsNamed("new_dependency") :
           /\ i + 2 <= Len(events)
           /\ events[i + 1] = [events[i] EXCEPT !.ev = "new_path"]
    /\ \A i \in EventsNamed("new_path") :
           /\ i + 1 <= Len(events)
           /\ events[i + 1] = [events[i] EXCEPT !.ev = "new_line"]

\* A run has returned with two paths recorded under one edge and two lines
\* under one path.
C19_Witness ==
    /\ pc = "returned"
    /\ \E x, y \in RecordedPaths : x[1] = y[1] /\ x[2] = y[2] /\ x[3] # y[3]
    /\ \E x, y \in RecordedLines :
           x[1] = y[1] /\ x[2] = y[2] /\ x[3] = y[3] /\ x[4] # y[4]

\* ---------------------------------------------------------------- C20
\* C20 as claimed: in one run new_commit is fired at most once for a commit.
C20_NewCommitOnce ==
    \A i, j \in EventsNamed("new_commit") : events[i].c = events[j].c => i = j

====
